---- MODULE Spec2Model ----
(***************************************************************************)
(* A model of htmlwidgets: the reflective path resolver of Form            *)
(* (findNestedField), the widgets' Fill / GetRenderData methods and the    *)
(* Form's Fill / RenderData / AddError.  Label, Description, Classes and    *)
(* Action are handed through to the render data unread and are left out.   *)
(*                                                                         *)
(* Representation.  A widget Id such as "Extra.Items.0" is kept in the     *)
(* split form <<"Extra", "Items", "0">> that strings.Split(field, ".")     *)
(* produces; a segment is a string.  A value of the data graph is a record *)
(* tagged with its reflect.Kind.                                           *)
(***************************************************************************)
EXTENDS Integers, Sequences, FiniteSets, TLC

VARIABLES data,     \* Form.data: the struct the form's pointer refers to
          Widgets,  \* Form.Widgets, in registration order
          errors,   \* Form.errors: widget id -> messages added by AddError
          last      \* the most recent call and what the caller observed

vars == <<data, Widgets, errors, last>>

---------------------------------------------------------------------------
(* Bounds of the model.                                                    *)

MaxLen == 2       \* longest slice a state of the path model may hold
AtoiMax == 12     \* greatest integer whose decimal form is a segment

---------------------------------------------------------------------------
(* Values of the data graph, by reflect.Kind.                              *)

StrV(s) == [kind |-> "string", v |-> s]
IntV(n) == [kind |-> "int", v |-> n]
BoolV(b) == [kind |-> "bool", v |-> b]
\* a struct with exported fields f (field name -> value)
StructV(f) == [kind |-> "struct", f |-> f]
\* a map[string]T, m: key -> element
MapV(m) == [kind |-> "map", m |-> m]
\* a []T holding s; z is the zero value of T
SliceV(z, s) == [kind |-> "slice", z |-> z, s |-> s]
\* a *T; e is <<>> for nil and <<x>> for a pointer to x; t is T's kind
PtrV(t, e) == [kind |-> "ptr", t |-> t, e |-> e]
\* an interface{} holding e (<<>> for a nil interface)
IfaceV(e) == [kind |-> "interface", e |-> e]

\* a []string holding the strings of s
StrSlice(s) == SliceV(StrV(""), [i \in DOMAIN s |-> StrV(s[i])])

\* the strings the data holds and the submissions carry
StrVals == {"a", "b"}

SeqsUpTo(S, n) == UNION {[1 .. k -> S] : k \in 0 .. n}

\* NewForm: no widgets, no errors
NoForm == <<>>
NoErrors == <<>>

---------------------------------------------------------------------------
(* strconv.Itoa / fmt "%d" and strconv.Atoi on path segments.              *)

Digits == <<"0", "1", "2", "3", "4", "5", "6", "7", "8", "9">>

RECURSIVE Itoa(_)
Itoa(i) ==
    IF i < 0 THEN "-" \o Itoa(0 - i)
    ELSE IF i < 10 THEN Digits[i + 1]
    ELSE Itoa(i \div 10) \o Digits[(i % 10) + 1]

AtoiRange == (0 - AtoiMax) .. AtoiMax

\* the segments strconv.Atoi accepts, with their values
AtoiTable == [i \in AtoiRange |-> Itoa(i)]

\* err == nil of strconv.Atoi(part)
AtoiOk(part) == \E i \in AtoiRange : AtoiTable[i] = part

Atoi(part) == CHOOSE i \in AtoiRange : AtoiTable[i] = part

---------------------------------------------------------------------------
(* Form.findNestedField.  The walk is written recursively over the rest of *)
(* the path; every result carries                                          *)
(*   out    "ok" (nil error), "err" (an error is returned) or "panic",     *)
(*   node   the walked subtree as the call leaves it,                      *)
(*   val    <<v>> for the returned reflect.Value, <<>> for the zero Value, *)
(*   mapSet <<s>> when a slice header could not be stored in place and was *)
(*          handed to lastMapValue.SetMapIndex(lastMapIndex, s),           *)
(*   addr   whether the returned Value refers to the data (is addressable) *)
(*          or is a copy taken out of a map or an interface.               *)
(* canSet is value.CanSet(); hasMap says that lastMapValue is valid.       *)

Res(out, node, val, mapSet) ==
    [out |-> out, node |-> node, val |-> val, mapSet |-> mapSet, addr |-> FALSE]

\* reflect's Set: the destination is an interface or has the source's type
Assignable(dst, src) == dst.kind = "interface" \/ dst.kind = src.kind

\* s without its element of (zero-based) index i
RemoveAt(s, i) == [j \in 1 .. (Len(s) - 1) |-> IF j <= i THEN s[j] ELSE s[j + 1]]

\* CutSlot as it would be if the tail were taken from index instead of
\* index+1: nothing is removed and the slice keeps its length
CutSlotFromIndex(value, index) == value

\* lines 162-164: AppendSlice(value.Slice(0, index), value.Slice(index+1, Len))
CutSlot(value, index) == [value EXCEPT !.s = RemoveAt(value.s, index)]

\* GrowSlot as it would be if the test were Len() == index+1: writing the
\* last element appends instead of overwriting
GrowSlotOffByOne(value, index) ==
    IF Len(value.s) = index + 1
    THEN [value EXCEPT !.s = Append(value.s, value.z)]
    ELSE value

\* lines 173-174: a slice addressed at its length gets one zero element
GrowSlot(value, index) ==
    IF Len(value.s) = index
    THEN [value EXCEPT !.s = Append(value.s, value.z)]
    ELSE value

\* the statements after the loop: lines 194-206
Finish(value, setValue, canSet) ==
    IF setValue = <<>>
    THEN [Res("ok", value,
              IF value.kind = "interface" THEN value.e ELSE <<value>>, <<>>)
            EXCEPT !.addr = canSet /\ value.kind /= "interface"]
    ELSE IF value.kind = "ptr"
    THEN IF value.t = setValue[1].kind /\ canSet
         THEN Res("ok", PtrV(value.t, setValue), <<PtrV(value.t, setValue)>>, <<>>)
         ELSE Res("panic", value, <<>>, <<>>)
    ELSE IF Assignable(value, setValue[1]) /\ canSet
    THEN IF value.kind = "interface"
         THEN Res("ok", IfaceV(setValue), setValue, <<>>)
         ELSE Res("ok", setValue[1], setValue, <<>>)
    ELSE Res("panic", value, <<>>, <<>>)

\* The one element of a singleton set.  { F(r) : r \in {e} } evaluates e
\* once, however often F uses r.
Only(S) == CHOOSE x \in S : TRUE

RECURSIVE Walk(_, _, _, _, _, _)
Walk(value, parts, setValue, remove, canSet, hasMap) ==
    IF parts = <<>> THEN Finish(value, setValue, canSet)
    ELSE
    LET part == Head(parts)
        rest == Tail(parts)
        setIt == Len(parts) = 1 /\ setValue /= <<>>
        removeIt == Len(parts) = 1 /\ remove
    IN
    CASE value.kind \in {"ptr", "interface"} ->
           \* value = value.Elem(); continue
           IF value.e = <<>>
           THEN Res("panic", value, <<>>, <<>>)
           ELSE Only({[r EXCEPT !.node = [value EXCEPT !.e = <<r.node>>]] :
                        r \in {Walk(value.e[1], parts, setValue, remove,
                                    value.kind = "ptr", hasMap)}})
      [] value.kind = "struct" ->
           \* value = value.FieldByName(part)
           IF part \in DOMAIN value.f
           THEN Only({[r EXCEPT !.node = [value EXCEPT !.f[part] = r.node]] :
                        r \in {Walk(value.f[part], rest, setValue, remove,
                                    canSet, hasMap)}})
           ELSE Res("err", value, <<>>, <<>>)
      [] value.kind = "map" ->
           IF setIt
           THEN Res("ok",
                    MapV([k \in DOMAIN value.m \cup {part} |->
                            IF k = part THEN IfaceV(setValue) ELSE value.m[k]]),
                    <<>>, <<>>)
           ELSE IF removeIt
           THEN Res("ok",
                    MapV([k \in DOMAIN value.m \ {part} |-> value.m[k]]),
                    <<>>, <<>>)
           ELSE IF part \in DOMAIN value.m
           THEN Only({Res(r.out,
                          [value EXCEPT !.m[part] =
                              IF r.mapSet /= <<>> THEN IfaceV(r.mapSet)
                                                  ELSE r.node],
                          r.val, <<>>) :
                        r \in {Walk(value.m[part], rest, setValue, remove,
                                    FALSE, TRUE)}})
           ELSE Res("err", value, <<>>, <<>>)
      [] value.kind = "slice" ->
           IF ~AtoiOk(part) THEN Res("err", value, <<>>, <<>>)
           ELSE Only({
             IF removeIt
             THEN IF index < 0 \/ index >= Len(value.s)
                  THEN Res("panic", value, <<>>, <<>>)
                  ELSE IF canSet
                  THEN Res("ok", CutSlot(value, index), <<>>, <<>>)
                  ELSE IF hasMap
                  THEN Res("ok", CutSlot(value, index), <<>>,
                           <<CutSlot(value, index)>>)
                  ELSE Res("panic", value, <<>>, <<>>)
             ELSE IF Len(value.s) = index /\ ~canSet /\ ~hasMap
             THEN \* the grown slice can be stored nowhere
                  Res("panic", value, <<>>, <<>>)
             ELSE Only({
               IF index < 0 \/ index >= Len(g.s)
               THEN \* value.Index(index) is out of range
                    Res("panic", value, <<>>, <<>>)
               ELSE Only({Res(r.out, [g EXCEPT !.s[index + 1] = r.node], r.val,
                              IF Len(g.s) /= Len(value.s) /\ ~canSet
                              THEN <<[g EXCEPT !.s[index + 1] = r.node]>>
                              ELSE r.mapSet) :
                            r \in {Walk(g.s[index + 1], rest, setValue,
                                        remove, TRUE, hasMap)}})
               : g \in {GrowSlot(value, index)}})
             : index \in {Atoi(part)}})
      [] OTHER -> Res("err", value, <<>>, <<>>)

\* f.data is a pointer to the struct `root`: reflect.ValueOf(f.data) is
\* unwrapped by the first turn of the loop and root is then addressable.
findNestedField(root, field, setValue, remove) ==
    Walk(PtrV("struct", <<root>>), field, setValue, remove, FALSE, FALSE)

rootOf(r) == r.node.e[1]

getNestedField(root, field) == findNestedField(root, field, <<>>, FALSE)

---------------------------------------------------------------------------
(* url.Values: a function from submitted keys, in split form, to their     *)
(* lists of values.                                                        *)

AddKey == <<"htmlwidgets-action--add-to-list">>
RemoveKey == <<"htmlwidgets-action--remove-from-list">>

\* url.Values.Get: the first value of the key, "" without one
ValuesGet(values, key) ==
    IF key \in DOMAIN values /\ Len(values[key]) > 0 THEN values[key][1] ELSE ""

\* the dotted string of an id: the inverse of strings.Split(field, ".")
RECURSIVE Join(_)
Join(id) ==
    IF Len(id) = 0 THEN ""
    ELSE IF Len(id) = 1 THEN id[1]
    ELSE id[1] \o "." \o Join(Tail(id))

\* strconv.ParseBool
TrueTokens == {"1", "t", "T", "TRUE", "true", "True"}
FalseTokens == {"0", "f", "F", "FALSE", "false", "False"}
ParseBoolOk(s) == s \in TrueTokens \cup FalseTokens
ParseBool(s) == s \in TrueTokens

\* strconv.ParseInt(s, 0, 0) on the decimal tokens of the model
ParseIntOk(s) == AtoiOk(s)
ParseInt(s) == Atoi(s)

\* what a value may have before and after a match of a pattern
Affixes == {"", "a", "b", "x", "y"}

\* MatchString as it would be if the pattern had to match the whole value
MatchStringWhole(pattern, value) ==
    \/ pattern = value
    \/ \E lit \in Affixes : pattern = "^" \o lit \o "$" /\ value = lit

\* regexp.MatchString(pattern, value) for the patterns of the model: a
\* literal matches anywhere in the value, and a literal between ^ and $
\* matches the value that is this literal
MatchString(pattern, value) ==
    \/ \E pre \in Affixes : \E post \in Affixes : pre \o pattern \o post = value
    \/ \E lit \in Affixes : pattern = "^" \o lit \o "$" /\ value = lit

---------------------------------------------------------------------------
(* Widgets.  A widget is a record of its WidgetBase (Id, Errors) and of    *)
(* the fields of its variant: MinLength, Regexp, ValidationError for Text  *)
(* and TextArea, Options for Select, Inner (<<w>>), AddLabel and           *)
(* RemoveLabel for List, Location (<<>> for nil) for Time.                 *)

Widget(kind, id) ==
    [kind |-> kind, Id |-> id, Errors |-> <<>>, MinLength |-> 0,
     Regexp |-> "", ValidationError |-> "", Options |-> <<>>, Inner |-> <<>>,
     AddLabel |-> "", RemoveLabel |-> "", Location |-> <<>>]

SelectOption(value, selected) == [Value |-> value, Selected |-> selected]

\* what a widget's Fill leaves and returns: the widget, the data, the
\* returned bool and whether the call returned ("ok") or panicked
FR(w, root, ret, out) == [w |-> w, root |-> root, ret |-> ret, out |-> out]

\* w.form.findNestedField(w.Id, v, false) with its results dropped: only a
\* panic reaches the caller
SetField(w, root, v, ret) ==
    Only({FR(w, rootOf(r), ret /\ r.out /= "panic",
             IF r.out = "panic" THEN "panic" ELSE "ok") :
            r \in {findNestedField(root, w.Id, <<v>>, FALSE)}})

\* StoreValidated as it would be if the value were stored after the
\* validation, behind its early return: an invalid value is not bound
StoreOnlyValid(w, root, value, validated) ==
    IF validated
    THEN SetField([w EXCEPT !.Errors = <<>>], root, StrV(value), TRUE)
    ELSE FR([w EXCEPT !.Errors = <<w.ValidationError>>], root, FALSE, "ok")

\* StoreValidated as it would be without the reset of Errors at the head of
\* Fill: a failed validation appends to the messages of earlier fills
StoreAccumulating(w, root, value, validated) ==
    Only({IF fr.out = "panic" \/ validated THEN fr
          ELSE [fr EXCEPT !.w.Errors = Append(w.Errors, w.ValidationError)] :
            fr \in {SetField(w, root, StrV(value), validated)}})

\* lines 94-96 and 106-110: Errors is reset, the value is stored whether
\* it validates or not, and a failed validation appends ValidationError
StoreValidated(w, root, value, validated) ==
    Only({IF fr.out = "panic" \/ validated THEN fr
          ELSE [fr EXCEPT !.w.Errors = <<w.ValidationError>>] :
            fr \in {SetField([w EXCEPT !.Errors = <<>>], root, StrV(value),
                             validated)}})

\* TextWidget.Fill
TextFill(w, root, values) ==
    LET value == ValuesGet(values, w.Id)
    IN  StoreValidated(w, root, value,
                       /\ Len(value) >= w.MinLength
                       /\ (Len(w.Regexp) > 0 => MatchString(w.Regexp, value)))

\* TextAreaWidget.Fill
TextAreaFill(w, root, values) ==
    LET value == ValuesGet(values, w.Id)
    IN  StoreValidated(w, root, value, Len(value) >= w.MinLength)

\* BoolWidget.Fill
BoolFill(w, root, values) ==
    IF w.Id \in DOMAIN values /\ Len(values[w.Id]) /= 0
    THEN IF ParseBoolOk(values[w.Id][1])
         THEN SetField(w, root, BoolV(ParseBool(values[w.Id][1])), TRUE)
         ELSE FR(w, root, TRUE, "ok")
    ELSE SetField(w, root, BoolV(FALSE), TRUE)

\* IntegerWidget.Fill: values[w.Id][0] is out of range without a value
IntegerFill(w, root, values) ==
    IF ~(w.Id \in DOMAIN values /\ Len(values[w.Id]) > 0)
    THEN FR(w, root, FALSE, "panic")
    ELSE IF ~ParseIntOk(values[w.Id][1])
    THEN FR(w, root, FALSE, "ok")
    ELSE SetField(w, root, IntV(ParseInt(values[w.Id][1])), TRUE)

\* SelectFill as it would be without the else branch of its loop: the
\* option that was selected before stays selected
SelectFillNoClear(w, root, values) ==
    IF Len(w.Options) = 0 THEN FR(w, root, FALSE, "panic")
    ELSE
    LET given == w.Id \in DOMAIN values /\ Len(values[w.Id]) >= 1
        hits == {i \in DOMAIN w.Options :
                    w.Options[i].Value = ValuesGet(values, w.Id)}
        value == IF given /\ hits /= {}
                 THEN ValuesGet(values, w.Id)
                 ELSE w.Options[1].Value
        options == IF given
                   THEN [i \in DOMAIN w.Options |->
                           [w.Options[i] EXCEPT !.Selected = @ \/ i \in hits]]
                   ELSE w.Options
    IN  SetField([w EXCEPT !.Options = options], root, StrV(value), TRUE)

\* SelectWidget.Fill: w.Options[0] is out of range without an option
SelectFill(w, root, values) ==
    IF Len(w.Options) = 0 THEN FR(w, root, FALSE, "panic")
    ELSE
    LET given == w.Id \in DOMAIN values /\ Len(values[w.Id]) >= 1
        hits == {i \in DOMAIN w.Options :
                    w.Options[i].Value = ValuesGet(values, w.Id)}
        value == IF given /\ hits /= {}
                 THEN ValuesGet(values, w.Id)
                 ELSE w.Options[1].Value
        options == IF given
                   THEN [i \in DOMAIN w.Options |->
                           [w.Options[i] EXCEPT !.Selected = i \in hits]]
                   ELSE w.Options
    IN  SetField([w EXCEPT !.Options = options], root, StrV(value), TRUE)

\* HiddenWidget.Fill
HiddenFill(w, root, values) ==
    SetField(w, root, StrV(ValuesGet(values, w.Id)), TRUE)

\* FileWidget.Fill
FileFill(w, root, values) == FR(w, root, TRUE, "ok")

---------------------------------------------------------------------------
(* time.Time and the TimeWidget.  An instant is its minute on the UTC      *)
(* clock, counted from the midnight of the day the inputs of the model     *)
(* name, with its second and nanosecond; a *time.Location is its offset    *)
(* from UTC in minutes.                                                    *)

TimeV(t) == [kind |-> "time", v |-> t]

Instant(min, sec, nsec) == [min |-> min, sec |-> sec, nsec |-> nsec]

\* time.UTC
UTC == <<0>>

\* the minute of time.Time{}, January 1 of the year 1, on that count
ZeroMinute == 0 - 1000000

\* time.Time{}
ZeroTime == Instant(ZeroMinute, 0, 0)

\* lines 28-30: the layouts
RFC3339 == "2006-01-02T15:04:05"
RFC3339Nano == "2006-01-02T15:04:05.999999999"
RFC3339Short == "2006-01-02T15:04"

\* the inputs that are times, with what they say: the minute of the wall
\* clock, the second, the nanosecond, and whether they go on after the
\* minute
TimeInputs ==
    {[text |-> "1985-04-10T08:10", wall |-> 490, sec |-> 0, nsec |-> 0,
      seconds |-> FALSE],
     [text |-> "1985-04-10T08:10:30", wall |-> 490, sec |-> 30, nsec |-> 0,
      seconds |-> TRUE],
     [text |-> "1985-04-10T08:10:30.5", wall |-> 490, sec |-> 30,
      nsec |-> 500000000, seconds |-> TRUE]}

\* the inputs a layout accepts: the seconds are needed by the layouts that
\* have them and are trailing text for the short one; the fraction of a
\* second may be missing or present for both layouts with seconds
Accepted(layout, value) ==
    {in \in TimeInputs :
        /\ in.text = value
        /\ in.seconds = (layout \in {RFC3339, RFC3339Nano})}

\* time.ParseInLocation(layout, value, loc): <<t>>, or <<>> for an error;
\* the text names the wall clock of loc
ParseInLocation(layout, value, loc) ==
    IF Accepted(layout, value) = {} THEN <<>>
    ELSE LET in == CHOOSE x \in Accepted(layout, value) : TRUE
         IN  <<Instant(in.wall - loc[1], in.sec, in.nsec)>>

\* t.In(loc).Format(RFC3339Short): the wall clock of loc, to the minute
FormatShort(t, loc) ==
    LET wall == t.min + loc[1]
    IN  CASE wall = 490 -> "1985-04-10T08:10"
          [] wall = 550 -> "1985-04-10T09:10"
          [] wall = ZeroMinute -> "0001-01-01T00:00"
          [] wall = ZeroMinute + 60 -> "0001-01-01T01:00"
          [] OTHER -> "another minute"

\* lines 381-383 and 365-367: a nil Location becomes time.UTC
WithLocation(w) == IF w.Location = <<>> THEN [w EXCEPT !.Location = UTC] ELSE w

\* the layouts in the order TimeWidget.Fill tries them, were the short one
\* forgotten
LayoutsWithoutShort == <<RFC3339Nano, RFC3339>>

\* lines 385-391: the layouts in the order TimeWidget.Fill tries them
Layouts == <<RFC3339Nano, RFC3339, RFC3339Short>>

\* lines 385-394: the result of the first layout that parses, or time.Time{}
RECURSIVE ParseFirst(_, _, _)
ParseFirst(layouts, value, loc) ==
    IF layouts = <<>> THEN ZeroTime
    ELSE IF ParseInLocation(Head(layouts), value, loc) /= <<>>
    THEN ParseInLocation(Head(layouts), value, loc)[1]
    ELSE ParseFirst(Tail(layouts), value, loc)

\* TimeWidget.Fill
TimeFill(w, root, values) ==
    SetField(WithLocation(w), root,
             TimeV(ParseFirst(Layouts, ValuesGet(values, w.Id),
                              WithLocation(w).Location)),
             TRUE)

---------------------------------------------------------------------------
(* ListWidget.Fill.                                                        *)

\* the keys the pattern "^" + w.Id + `\.(\d)$` matches: the id followed by
\* one segment that is a single decimal digit
IsDigit(seg) == \E d \in DOMAIN Digits : Digits[d] = seg

ChildKeys(w, values) ==
    {key \in DOMAIN values :
        /\ Len(key) = Len(w.Id) + 1
        /\ SubSeq(key, 1, Len(w.Id)) = w.Id
        /\ IsDigit(key[Len(key)])}

Max(S) == CHOOSE i \in S : \A j \in S : j <= i

\* MaxIndex as it would be without lines 309-311: an add asks for no row
MaxIndexNoAdd(w, values, addTo) ==
    Max({0} \cup {Atoi(key[Len(key)]) : key \in ChildKeys(w, values)})

\* lines 296-311: the greatest matched index, from 0, plus one for an add
MaxIndex(w, values, addTo) ==
    Max({0} \cup {Atoi(key[Len(key)]) : key \in ChildKeys(w, values)})
    + (IF addTo THEN 1 ELSE 0)

ChildId(w, i) == Append(w.Id, Itoa(i))

RECURSIVE WidgetFill(_, _, _)

\* lines 314-336, from child i on.  The result is that of Fill so far, with
\* the ids marked for removal.
RECURSIVE FillChildren(_, _, _, _, _, _, _, _)
FillChildren(w, root, values, i, maxIndex, addTo, valid, remove) ==
    IF i > maxIndex
    THEN [w |-> w, root |-> root, ret |-> valid, out |-> "ok", remove |-> remove]
    ELSE IF ValuesGet(values, RemoveKey) = Join(ChildId(w, i))
    THEN FillChildren(w, root, values, i + 1, maxIndex, addTo, FALSE,
                      Append(remove, ChildId(w, i)))
    ELSE Only({
           IF fr.out = "panic"
           THEN [w |-> [w EXCEPT !.Inner = <<fr.w>>], root |-> fr.root,
                 ret |-> FALSE, out |-> "panic", remove |-> remove]
           ELSE FillChildren(
                  [w EXCEPT !.Inner = <<fr.w>>], fr.root, values, i + 1,
                  maxIndex,
                  addTo /\ ChildId(w, i) \in DOMAIN values,
                  /\ valid
                  /\ ~(ChildId(w, i) \notin DOMAIN values /\ addTo)
                  /\ fr.ret,
                  IF ChildId(w, i) \notin DOMAIN values /\ ~addTo
                  THEN Append(remove, ChildId(w, i))
                  ELSE remove)
           : fr \in {WidgetFill([w.Inner[1] EXCEPT !.Id = ChildId(w, i),
                                                   !.Errors = <<>>],
                                root, values)}})

\* lines 339-341: the marked ids are removed in the order they were marked
RECURSIVE RemoveMarked(_, _)
RemoveMarked(root, remove) ==
    IF remove = <<>> THEN [root |-> root, out |-> "ok"]
    ELSE Only({IF r.out = "panic"
               THEN [root |-> rootOf(r), out |-> "panic"]
               ELSE RemoveMarked(rootOf(r), Tail(remove)) :
                 r \in {findNestedField(root, Head(remove), <<>>, TRUE)}})

\* field.Len() in the loop of line 348: field refers to the slice of the
\* data when it is addressable and is a copy of its header, which keeps the
\* length it had at line 344, when it is not
FieldLen(root, id, field) ==
    IF field.addr
    THEN Len(getNestedField(root, id).val[1].s)
    ELSE Len(field.val[1].s)

\* lines 348-351, from index i on
RECURSIVE Crop(_, _, _, _)
Crop(w, root, i, field) ==
    IF ~(i < FieldLen(root, w.Id, field)) THEN [root |-> root, out |-> "ok"]
    ELSE Only({IF r.out = "panic"
               THEN [root |-> rootOf(r), out |-> "panic"]
               ELSE Crop(w, rootOf(r), i + 1, field) :
                 r \in {findNestedField(root, ChildId(w, i), <<>>, TRUE)}})

\* AddRequested as it would be if the add control counted whatever its
\* value is
AddRequestedAny(w, values) == AddKey \in DOMAIN values

\* line 294: the add control counts for the list whose Id is its value
AddRequested(w, values) == ValuesGet(values, AddKey) = Join(w.Id)

\* ListWidget.Fill
ListFill(w, root, values) ==
    LET addTo == AddRequested(w, values)
        maxIndex == MaxIndex(w, values, addTo)
    IN  Only({
          IF c.out = "panic" THEN FR(c.w, c.root, FALSE, "panic")
          ELSE Only({
            IF m.out = "panic" THEN FR(c.w, m.root, FALSE, "panic")
            ELSE Only({
              IF field.out /= "ok"
              THEN \* line 346: panic(err)
                   FR(c.w, rootOf(field), FALSE, "panic")
              ELSE Only({FR(c.w, k.root, c.ret /\ k.out = "ok", k.out) :
                           k \in {Crop(c.w, rootOf(field), maxIndex + 1, field)}})
              : field \in {getNestedField(m.root, w.Id)}})
            : m \in {RemoveMarked(c.root, c.remove)}})
          : c \in {FillChildren(w, root, values, 0, maxIndex, addTo, TRUE, <<>>)}})

\* the Fill of the widget's variant
WidgetFill(w, root, values) ==
    CASE w.kind = "Text" -> TextFill(w, root, values)
      [] w.kind = "TextArea" -> TextAreaFill(w, root, values)
      [] w.kind = "Bool" -> BoolFill(w, root, values)
      [] w.kind = "Integer" -> IntegerFill(w, root, values)
      [] w.kind = "Select" -> SelectFill(w, root, values)
      [] w.kind = "Hidden" -> HiddenFill(w, root, values)
      [] w.kind = "File" -> FileFill(w, root, values)
      [] w.kind = "Time" -> TimeFill(w, root, values)
      [] w.kind = "List" -> ListFill(w, root, values)

---------------------------------------------------------------------------
(* Form.Fill.  The result carries, besides what the caller sees, the log   *)
(* `calls` of the widget Fills the loop made: the index of the widget in   *)
(* Form.Widgets and what its Fill returned.                                *)

\* Accumulate as it would be with `ret = ok` in the loop: the last widget
\* decides
AccumulateLast(ret, ok) == ok

\* lines 221-223: one false result makes the form's result false
Accumulate(ret, ok) == ret /\ ok

\* lines 220-224, from widget i on
RECURSIVE FillFrom(_, _, _, _, _, _)
FillFrom(ws, root, values, i, ret, calls) ==
    IF i > Len(ws)
    THEN [ws |-> ws, root |-> root, ret |-> ret, out |-> "ok", calls |-> calls]
    ELSE Only({
           IF fr.out = "panic"
           THEN [ws |-> [ws EXCEPT ![i] = fr.w], root |-> fr.root,
                 ret |-> FALSE, out |-> "panic", calls |-> calls]
           ELSE FillFrom([ws EXCEPT ![i] = fr.w], fr.root, values, i + 1,
                         Accumulate(ret, fr.ret),
                         Append(calls, [widget |-> i, ok |-> fr.ret]))
           : fr \in {WidgetFill(ws[i], root, values)}})

\* Form.Fill
FormFill(ws, root, values) == FillFrom(ws, root, values, 1, TRUE, <<>>)

---------------------------------------------------------------------------
(* GetRenderData of the widgets and Form.RenderData.  A render node is the *)
(* WidgetRenderData: Id and Errors of the WidgetBase, Template and Data.   *)

RenderNode(w, template, d) ==
    [Id |-> w.Id, Errors |-> w.Errors, Template |-> template, Data |-> d]

\* what a widget's GetRenderData leaves and returns
RR(w, root, node, out) == [w |-> w, root |-> root, node |-> node, out |-> out]

\* WidgetBase.GetRenderData, with the Template its caller then sets
BaseRender(w, root, template) ==
    Only({IF r.out = "ok"
          THEN RR(w, rootOf(r), <<RenderNode(w, template, r.val[1])>>, "ok")
          ELSE RR(w, rootOf(r), <<>>, "panic") :
            r \in {getNestedField(root, w.Id)}})

\* TimeWidget.GetRenderData: value.Interface().(time.Time) panics for a
\* field that is no time.Time
TimeRender(w, root) ==
    Only({IF r.out = "ok" /\ r.val /= <<>> /\ r.val[1].kind = "time"
          THEN RR(WithLocation(w), rootOf(r),
                  <<RenderNode(WithLocation(w), "time",
                               StrV(FormatShort(r.val[1].v,
                                                WithLocation(w).Location)))>>,
                  "ok")
          ELSE RR(WithLocation(w), rootOf(r), <<>>, "panic") :
            r \in {getNestedField(root, w.Id)}})

RECURSIVE WidgetRender(_, _)

\* lines 272-280 of ListWidget.GetRenderData, from child i on
RECURSIVE RenderChildren(_, _, _, _, _)
RenderChildren(w, root, i, len, nodes) ==
    IF ~(i < len) THEN RR(w, root, nodes, "ok")
    ELSE Only({IF rr.out = "panic"
               THEN RR([w EXCEPT !.Inner = <<rr.w>>], rr.root, <<>>, "panic")
               ELSE RenderChildren([w EXCEPT !.Inner = <<rr.w>>], rr.root,
                                   i + 1, len, nodes \o rr.node) :
                 rr \in {WidgetRender([w.Inner[1] EXCEPT !.Id = ChildId(w, i),
                                                         !.Errors = <<>>],
                                      root)}})

\* InnerLen as it would be with `i < innerValues.Len()-1` in the loop: the
\* last element gets no node
InnerLenShort(innerValues) ==
    IF Len(innerValues.s) > 0 THEN Len(innerValues.s) - 1 ELSE 0

\* line 272: innerValues.Len()
InnerLen(innerValues) == Len(innerValues.s)

\* ListWidget.GetRenderData
ListRender(w, root) ==
    Only({IF r.out /= "ok" THEN RR(w, rootOf(r), <<>>, "panic")
          ELSE Only({IF c.out = "panic" THEN c
                     ELSE RR(c.w, c.root,
                             <<RenderNode(w, "list",
                                          [Fields |-> c.node,
                                           AddLabel |-> w.AddLabel,
                                           RemoveLabel |-> w.RemoveLabel])>>,
                             "ok") :
                       c \in {RenderChildren(w, rootOf(r), 0,
                                             InnerLen(r.val[1]), <<>>)}}) :
            r \in {getNestedField(root, w.Id)}})

\* the GetRenderData of the widget's variant
WidgetRender(w, root) ==
    CASE w.kind = "Text" -> BaseRender(w, root, "text")
      [] w.kind = "TextArea" -> BaseRender(w, root, "textarea")
      [] w.kind = "Bool" -> BaseRender(w, root, "checkbox")
      [] w.kind = "Integer" -> BaseRender(w, root, "text")
      [] w.kind = "Hidden" -> BaseRender(w, root, "hidden")
      [] w.kind = "File" -> BaseRender(w, root, "file")
      [] w.kind = "Time" -> TimeRender(w, root)
      [] w.kind = "Select" ->
           RR(w, root, <<RenderNode(w, "select", w.Options)>>, "ok")
      [] w.kind = "List" -> ListRender(w, root)

\* f.errors[id]
ErrorsOf(errs, id) == IF id \in DOMAIN errs THEN errs[id] ELSE <<>>

\* WithFormErrors as it would be if the messages of the form were assigned
\* instead of appended: they replace the widget's own
WithFormErrorsAssigned(node, errs, id) ==
    IF ErrorsOf(errs, id) = <<>> THEN node
    ELSE [node EXCEPT !.Errors = ErrorsOf(errs, id)]

\* lines 102-103: the messages of f.errors for the widget's id are appended
\* to the Errors of its node
WithFormErrors(node, errs, id) ==
    [node EXCEPT !.Errors = @ \o ErrorsOf(errs, id)]

\* EncType as it would be if every turn of the loop assigned the flag: the
\* last widget decides
EncTypeOfLast(enc, w) == w.kind = "File"

\* lines 98-100: EncTypeAttr is set once a widget is a *FileWidget
EncType(enc, w) == enc \/ w.kind = "File"

\* lines 97-105 of Form.RenderData, from widget i on
RECURSIVE RenderFrom(_, _, _, _, _, _)
RenderFrom(ws, root, errs, i, nodes, enc) ==
    IF i > Len(ws)
    THEN [ws |-> ws, root |-> root, out |-> "ok", tree |-> nodes, enc |-> enc]
    ELSE Only({
           IF rr.out = "panic"
           THEN [ws |-> [ws EXCEPT ![i] = rr.w], root |-> rr.root,
                 out |-> "panic", tree |-> <<>>, enc |-> FALSE]
           ELSE RenderFrom([ws EXCEPT ![i] = rr.w], rr.root, errs, i + 1,
                           Append(nodes,
                                  WithFormErrors(rr.node[1], errs, ws[i].Id)),
                           EncType(enc, ws[i]))
           : rr \in {WidgetRender(ws[i], root)}})

\* line 114: f.errors[widgetId] = append(f.errors[widgetId], error)
AppendError(errs, id, msg) ==
    [k \in DOMAIN errs \cup {id} |->
        IF k = id THEN Append(ErrorsOf(errs, id), msg) ELSE errs[k]]

\* Form.RenderData
FormRenderData(ws, root, errs) == RenderFrom(ws, root, errs, 1, <<>>, FALSE)

---------------------------------------------------------------------------
(* The form model: a form over                                             *)
(*   struct { Name string; Age int; Alive bool; Tags []string;             *)
(*            When time.Time }                                             *)
(* gets its widgets, is filled with one submission and is rendered, as in  *)
(* the handling of one request.  "Nope" names no field of the struct.      *)

MaxWidgets == 2   \* most widgets a form of the form model registers

FormData ==
    StructV([Name |-> StrV("old"), Age |-> IntV(0), Alive |-> BoolV(TRUE),
             Tags |-> StrSlice(<<"a">>),
             When |-> TimeV(Instant(490, 30, 0))])

\* the widgets a caller constructs, each with the field it is meant for
Catalogue ==
    LET text == [Widget("Text", <<>>) EXCEPT
                    !.MinLength = 1, !.ValidationError = "Required!"]
        area == [Widget("TextArea", <<>>) EXCEPT
                    !.MinLength = 1, !.ValidationError = "Required!"]
        select == [Widget("Select", <<>>) EXCEPT
                    !.Options = <<SelectOption("a", TRUE),
                                  SelectOption("b", FALSE)>>]
        list == [Widget("List", <<>>) EXCEPT
                    !.Inner = <<Widget("Text", <<>>)>>]
    IN  {[w |-> text, field |-> <<"Name">>],
         [w |-> area, field |-> <<"Name">>],
         [w |-> select, field |-> <<"Name">>],
         [w |-> Widget("Hidden", <<>>), field |-> <<"Name">>],
         [w |-> Widget("File", <<>>), field |-> <<"Name">>],
         [w |-> Widget("Bool", <<>>), field |-> <<"Alive">>],
         [w |-> Widget("Integer", <<>>), field |-> <<"Age">>],
         [w |-> list, field |-> <<"Tags">>]}

\* the ids a caller registers such a widget under: its field, or an id the
\* data does not have
IdsFor(c) == {c.field, <<"Nope">>}

\* what a submission may carry for a registered id: nothing, or one value
Offers(id) ==
    CASE id = <<"Name">> -> {<<>>, <<"a">>, <<"b">>}
      [] id = <<"Age">> -> {<<>>, <<"7">>, <<"x">>}
      [] id = <<"Alive">> -> {<<>>, <<"true">>, <<"x">>}
      [] OTHER -> {<<>>, <<"a">>}

\* the submissions for a form: for every registered id an offer, and for a
\* list its first child and the add control
Submissions(ws) ==
    LET ids == {ws[i].Id : i \in DOMAIN ws}
        lists == {ws[i].Id : i \in {j \in DOMAIN ws : ws[j].kind = "List"}}
        keys == ids \cup {Append(id, "0") : id \in lists}
                    \cup (IF lists = {} THEN {} ELSE {AddKey})
        offer(k) == IF k = AddKey THEN {<<>>, <<"Tags">>}
                    ELSE IF k \in ids THEN Offers(k)
                    ELSE {<<>>, <<"b">>}
    IN  {[k \in {j \in keys : pick[j] /= <<>>} |-> pick[k]] :
            pick \in {p \in [keys -> {<<>>, <<"a">>, <<"b">>, <<"7">>, <<"x">>,
                                      <<"true">>, <<"Tags">>}] :
                        \A k \in keys : p[k] \in offer(k)}}

InitForm ==
    /\ data = FormData
    /\ Widgets = NoForm
    /\ errors = NoErrors
    /\ last = [op |-> "NewForm", out |-> "ok"]

\* Form.AddWidget
AddWidget ==
    /\ last.op \in {"NewForm", "AddWidget"}
    /\ Len(Widgets) < MaxWidgets
    /\ \E c \in Catalogue : \E id \in IdsFor(c) :
          Widgets' = Append(Widgets, [c.w EXCEPT !.Id = id])
    /\ last' = [op |-> "AddWidget", out |-> "ok"]
    /\ UNCHANGED <<data, errors>>

\* Form.Fill
Fill ==
    /\ last.op \in {"NewForm", "AddWidget"}
    /\ \E values \in Submissions(Widgets) :
       \E f \in {FormFill(Widgets, data, values)} :
          /\ Widgets' = f.ws
          /\ data' = f.root
          /\ last' = [op |-> "Fill", values |-> values, out |-> f.out,
                      ret |-> f.ret, calls |-> f.calls, before |-> data]
    /\ UNCHANGED errors

\* Form.RenderData
RenderData ==
    /\ last.op \in {"AddWidget", "Fill"}
    /\ last.out = "ok"
    /\ \E f \in {FormRenderData(Widgets, data, errors)} :
          /\ Widgets' = f.ws
          /\ data' = f.root
          /\ last' = [op |-> "RenderData", out |-> f.out, tree |-> f.tree,
                      formErrors |-> ErrorsOf(errors, <<"">>), enc |-> f.enc,
                      before |-> data]
    /\ UNCHANGED errors

NextForm == AddWidget \/ Fill \/ RenderData

SpecForm == InitForm /\ [][NextForm]_vars

---------------------------------------------------------------------------
(* The path model: one Get, Set or Remove of the resolver, called on a    *)
(* form over                                                               *)
(*   struct { Name string; Seq []string; Extra map[string]interface{};     *)
(*            Nick *string; Any interface{} }                              *)
(* where Extra["Items"] is a []string, Extra["Note"], when present, a      *)
(* string, Nick is nil or points to a string as Note is absent or present, *)
(* and Any holds a string.  The caller supplies the data, so Init draws it *)
(* from every graph of that shape within the bounds.  A Set that returned  *)
(* may be followed by the Get of the same path.                            *)

PathData(seq, items, note) ==
    StructV([Name |-> StrV(""),
             Seq |-> StrSlice(seq),
             Extra |-> MapV([k \in {"Items"} \cup {"Note" : i \in DOMAIN note} |->
                               IF k = "Items" THEN IfaceV(<<StrSlice(items)>>)
                               ELSE IfaceV(<<StrV(note[1])>>)]),
             Nick |-> PtrV("string", [i \in DOMAIN note |-> StrV(note[i])]),
             Any |-> IfaceV(<<StrV("b")>>)])

IdxSegs == {Itoa(i) : i \in (0 - 1) .. (MaxLen + 1)} \cup {"x"}

PathSet ==
    {<<f>> : f \in {"Name", "Seq", "Extra", "Nope", "Nick", "Any"}}
    \cup {<<"Seq", s>> : s \in IdxSegs}
    \cup {<<"Seq", s, "x">> : s \in IdxSegs}
    \cup {<<"Name", "x">>, <<"Nope", "x">>, <<"Extra", "Note">>,
          <<"Extra", "Items">>, <<"Extra", "Gone">>, <<"Extra", "Note", "x">>}
    \cup {<<"Extra", "Items", s>> : s \in IdxSegs}

\* the values a caller sets at a path
SetVals == {StrV(v) : v \in StrVals}

InitPath ==
    /\ data \in {PathData(seq, items, note) :
                   seq \in SeqsUpTo(StrVals, MaxLen),
                   items \in SeqsUpTo(StrVals, MaxLen),
                   note \in {<<>>, <<"a">>}}
    /\ Widgets = NoForm
    /\ errors = NoErrors
    /\ last = [op |-> "NewForm", out |-> "ok"]

PathCall(op, field, setValue, remove) ==
    /\ last.op = "NewForm"
    /\ \E r \in {findNestedField(data, field, setValue, remove)} :
        /\ data' = rootOf(r)
        /\ last' = [op |-> op, field |-> field, arg |-> setValue,
                    out |-> r.out, val |-> r.val, before |-> data]
    /\ UNCHANGED <<Widgets, errors>>

Get == \E field \in PathSet : PathCall("Get", field, <<>>, FALSE)

Set == \E field \in PathSet : \E v \in SetVals :
           PathCall("Set", field, <<v>>, FALSE)

Remove == \E field \in PathSet : PathCall("Remove", field, <<>>, TRUE)

\* getNestedField(field) for the field of the Set that has just returned
GetBack ==
    /\ last.op = "Set"
    /\ last.out = "ok"
    /\ \E r \in {getNestedField(data, last.field)} :
        /\ data' = rootOf(r)
        /\ last' = [op |-> "GetBack", field |-> last.field, arg |-> last.arg,
                    out |-> r.out, val |-> r.val, before |-> data]
    /\ UNCHANGED <<Widgets, errors>>

NextPath == Get \/ Set \/ Remove \/ GetBack

SpecPath == InitPath /\ [][NextPath]_vars

---------------------------------------------------------------------------
(* The list model: a form with one ListWidget over a Text widget, bound to *)
(* the []string field L of the data or to the []string the data keeps in   *)
(* its map as Extra["Items"], is filled with one submission and rendered,  *)
(* or filled with that submission a second time.                           *)

MaxListLen == 3   \* longest sequence the list is bound to before the Fill
MaxChild == 2     \* greatest child index a submission of the list model has

ListData(seq) ==
    StructV([L |-> StrSlice(seq),
             Extra |-> MapV([Items |-> IfaceV(<<StrSlice(seq)>>)])])

ListIds == {<<"L">>, <<"Extra", "Items">>}

\* the list widget, its inner Text widget requiring min characters
ListOver(id, min) ==
    [Widget("List", id) EXCEPT
       !.Inner = <<[Widget("Text", <<>>) EXCEPT
                      !.MinLength = min, !.ValidationError = "Required!"]>>,
       !.AddLabel = "Add", !.RemoveLabel = "Remove"]

\* the strings a submission carries for a child
ChildVals == {"x", "y"}

\* a submission: values for some of the children 0 .. n, and possibly the
\* add control with the value add and the remove control with the value
\* remove (<<>> for a control that is not submitted); "Other" is the id of
\* no widget of the form
Submission(id, kids, add, remove) ==
    [k \in {Append(id, Itoa(i)) : i \in DOMAIN kids}
           \cup {AddKey : j \in DOMAIN add}
           \cup {RemoveKey : j \in DOMAIN remove} |->
        IF k = AddKey THEN add
        ELSE IF k = RemoveKey THEN remove
        ELSE <<kids[CHOOSE i \in DOMAIN kids : Append(id, Itoa(i)) = k]>>]

ListSubmissions(id) ==
    {Submission(id, kids, add, remove) :
        kids \in UNION {[C -> ChildVals] : C \in SUBSET (0 .. MaxChild)},
        add \in {<<>>, <<Join(id)>>, <<"Other">>},
        remove \in {<<>>, <<"Other.0">>}
                   \cup {<<Join(Append(id, Itoa(i)))>> : i \in 0 .. MaxChild}}

InitList ==
    /\ data \in {ListData(seq) : seq \in SeqsUpTo(StrVals, MaxListLen)}
    /\ Widgets \in {<<ListOver(id, min)>> : id \in ListIds, min \in {0, 2}}
    /\ errors = NoErrors
    /\ last = [op |-> "AddWidget", out |-> "ok"]

\* Form.Fill with a submission for the list
FillList ==
    /\ last.op = "AddWidget"
    /\ \E values \in ListSubmissions(Widgets[1].Id) :
       \E f \in {FormFill(Widgets, data, values)} :
          /\ Widgets' = f.ws
          /\ data' = f.root
          /\ last' = [op |-> "Fill", values |-> values, out |-> f.out,
                      ret |-> f.ret, calls |-> f.calls, before |-> data]
    /\ UNCHANGED errors

\* Form.Fill once more with the submission of the Fill that has just
\* returned, when it has no control key; `first` keeps what that Fill
\* returned and the data it was called on
FillAgain ==
    /\ last.op = "Fill"
    /\ last.out = "ok"
    /\ AddKey \notin DOMAIN last.values
    /\ RemoveKey \notin DOMAIN last.values
    /\ \E f \in {FormFill(Widgets, data, last.values)} :
          /\ Widgets' = f.ws
          /\ data' = f.root
          /\ last' = [op |-> "FillAgain", values |-> last.values,
                      out |-> f.out, ret |-> f.ret, calls |-> f.calls,
                      before |-> data,
                      first |-> [ret |-> last.ret, before |-> last.before]]
    /\ UNCHANGED errors

NextList == FillList \/ RenderData \/ FillAgain

SpecList == InitList /\ [][NextList]_vars

---------------------------------------------------------------------------
(* The wide list model: the list is bound to a sequence of up to WideLen   *)
(* elements "a" and the submission carries "x" for every one of them,      *)
(* possibly with a control.                                                *)

WideLen == 11     \* longest sequence of the wide list model

InitWide ==
    /\ data \in {ListData([i \in 1 .. n |-> "a"]) : n \in 1 .. WideLen}
    /\ Widgets = <<ListOver(<<"L">>, 0)>>
    /\ errors = NoErrors
    /\ last = [op |-> "AddWidget", out |-> "ok"]

WideSubmissions(n) ==
    {Submission(<<"L">>, [i \in 0 .. (n - 1) |-> "x"], add, remove) :
        add \in {<<>>, <<"L">>},
        remove \in {<<>>} \cup {<<Join(<<"L", Itoa(i)>>)>> : i \in 0 .. (n - 1)}}

\* Form.Fill with a submission of all the children of the list
FillWide ==
    /\ last.op = "AddWidget"
    /\ \E values \in WideSubmissions(Len(data.f.L.s)) :
       \E f \in {FormFill(Widgets, data, values)} :
          /\ Widgets' = f.ws
          /\ data' = f.root
          /\ last' = [op |-> "Fill", values |-> values, out |-> f.out,
                      ret |-> f.ret, calls |-> f.calls, before |-> data]
    /\ UNCHANGED errors

NextWide == FillWide \/ RenderData

SpecWide == InitWide /\ [][NextWide]_vars

---------------------------------------------------------------------------
(* The widget model: a form over the struct of the form model with one     *)
(* widget, registered under the field it is meant for, is filled and       *)
(* rendered any number of times, as over the requests of a session.        *)

\* the widgets of the widget model
Kit ==
    {[w |-> [Widget("Text", <<>>) EXCEPT !.MinLength = min, !.Regexp = re,
                                         !.ValidationError = "Invalid!"],
      field |-> <<"Name">>] : min \in {0, 2}, re \in {"", "a", "^a$"}}
    \cup {[w |-> [Widget("TextArea", <<>>) EXCEPT
                     !.MinLength = min, !.ValidationError = "Invalid!"],
           field |-> <<"Name">>] : min \in {0, 2}}
    \cup {[w |-> [Widget("Select", <<>>) EXCEPT
                     !.Options = <<SelectOption("a", TRUE),
                                   SelectOption("b", FALSE),
                                   SelectOption("c", FALSE)>>],
           field |-> <<"Name">>],
          [w |-> Widget("Hidden", <<>>), field |-> <<"Name">>],
          [w |-> Widget("Bool", <<>>), field |-> <<"Alive">>],
          [w |-> Widget("Integer", <<>>), field |-> <<"Age">>]}
    \cup {[w |-> [Widget("Time", <<>>) EXCEPT !.Location = loc],
           field |-> <<"When">>] : loc \in {<<>>, <<60>>}}

\* the values a submission may carry for the widget
Tokens(w) ==
    CASE w.kind \in {"Text", "TextArea", "Hidden"} -> {"", "a", "b", "ab", "ba"}
      [] w.kind = "Select" -> {"a", "b", "c", "x"}
      [] w.kind = "Bool" -> {"true", "false", "1", "x"}
      [] w.kind = "Integer" -> {"7", "-3", "x"}
      [] w.kind = "Time" -> {in.text : in \in TimeInputs} \cup {"x"}

\* the submissions for the widget: without its key, or with one value
KitSubmissions(w) ==
    {<<>>} \cup {[k \in {w.Id} |-> <<t>>] : t \in Tokens(w)}

InitWidget ==
    /\ data = FormData
    /\ Widgets \in {<<[c.w EXCEPT !.Id = c.field]>> : c \in Kit}
    /\ errors = NoErrors
    /\ last = [op |-> "AddWidget", out |-> "ok"]

\* Form.Fill with a submission for the widget; `was` keeps the widget as it
\* was before the call
FillWidget ==
    /\ last.out = "ok"
    /\ \E values \in KitSubmissions(Widgets[1]) :
       \E f \in {FormFill(Widgets, data, values)} :
          /\ Widgets' = f.ws
          /\ data' = f.root
          /\ last' = [op |-> "Fill", values |-> values, out |-> f.out,
                      ret |-> f.ret, calls |-> f.calls, before |-> data,
                      was |-> Widgets]
    /\ UNCHANGED errors

NextWidget == FillWidget \/ RenderData

SpecWidget == InitWidget /\ [][NextWidget]_vars

---------------------------------------------------------------------------
(* The session model: a form of one or two widgets over the struct of the  *)
(* form model is filled at most once and then takes AddError and           *)
(* RenderData calls in any order.  One of the widgets is registered under  *)
(* "Tags.1", the index after the last element of Tags.                     *)

MaxErrors == 2    \* most messages AddError is called with in a session

\* the widgets of the session model
SessionKit ==
    {[Widget("Text", <<"Name">>) EXCEPT
         !.MinLength = 2, !.ValidationError = "Invalid!"],
     [Widget("List", <<"Tags">>) EXCEPT !.Inner = <<Widget("Text", <<>>)>>],
     Widget("Text", <<"Tags", "1">>)}

\* the ids AddError is called with; "" splits into <<"">>
ErrorIds == {<<"Name">>, <<"">>}

ErrorMessages == {"e1", "e2"}

\* the number of messages in f.errors
RECURSIVE Count(_)
Count(errs) ==
    IF DOMAIN errs = {} THEN 0
    ELSE LET k == CHOOSE x \in DOMAIN errs : TRUE
         IN  Len(errs[k]) + Count([j \in DOMAIN errs \ {k} |-> errs[j]])

InitSession ==
    /\ data = FormData
    /\ Widgets \in {<<w>> : w \in SessionKit}
                   \cup {<<p[1], p[2]>> :
                           p \in {q \in SessionKit \X SessionKit : q[1] /= q[2]}}
    /\ errors = NoErrors
    /\ last = [op |-> "AddWidget", out |-> "ok"]

\* Form.Fill, as the first call of the session
FillSession ==
    /\ last.op = "AddWidget"
    /\ \E values \in Submissions(Widgets) :
       \E f \in {FormFill(Widgets, data, values)} :
          /\ Widgets' = f.ws
          /\ data' = f.root
          /\ last' = [op |-> "Fill", values |-> values, out |-> f.out,
                      ret |-> f.ret, calls |-> f.calls, before |-> data]
    /\ UNCHANGED errors

\* Form.AddError
AddError ==
    /\ last.out = "ok"
    /\ Count(errors) < MaxErrors
    /\ \E id \in ErrorIds : \E msg \in ErrorMessages :
          /\ errors' = AppendError(errors, id, msg)
          /\ last' = [op |-> "AddError", out |-> "ok", id |-> id, msg |-> msg]
    /\ UNCHANGED <<data, Widgets>>

\* Form.RenderData, at any time of the session; `ws` keeps the widgets as
\* they were before the call and `prev` the tree of the RenderData that was
\* the call before this one, if it was one
RenderAgain ==
    /\ last.out = "ok"
    /\ \E f \in {FormRenderData(Widgets, data, errors)} :
          /\ Widgets' = f.ws
          /\ data' = f.root
          /\ last' = [op |-> "RenderData", out |-> f.out, tree |-> f.tree,
                      formErrors |-> ErrorsOf(errors, <<"">>), enc |-> f.enc,
                      before |-> data, ws |-> Widgets,
                      prev |-> IF last.op = "RenderData"
                               THEN <<last.tree>> ELSE <<>>]
    /\ UNCHANGED errors

NextSession == FillSession \/ AddError \/ RenderAgain

SpecSession == InitSession /\ [][NextSession]_vars

---------------------------------------------------------------------------
(* Properties of the path model.                                           *)

\* the call of the state is a Get / Set / Remove of the resolver
Called(ops) == last.op \in ops

\* the paths that end in an index of Seq or of Extra["Items"]
IsIndexPath(field) ==
    \/ Len(field) = 2 /\ field[1] = "Seq"
    \/ Len(field) = 3 /\ field[1] = "Extra" /\ field[2] = "Items"

\* the paths that lead through such an index
ThroughIndexPath(field) ==
    \/ Len(field) >= 2 /\ field[1] = "Seq"
    \/ Len(field) >= 3 /\ field[1] = "Extra" /\ field[2] = "Items"

IndexSeg(field) == IF field[1] = "Seq" THEN field[2] ELSE field[3]

\* the elements of the sequence such a path addresses
Target(root, field) ==
    IF field[1] = "Seq" THEN root.f.Seq.s ELSE root.f.Extra.m.Items.e[1].s

\* root with that sequence's elements replaced by s
WithTarget(root, field, s) ==
    IF field[1] = "Seq" THEN [root EXCEPT !.f.Seq.s = s]
    ELSE [root EXCEPT !.f.Extra.m.Items.e[1].s = s]

\* C4: a Set whose last segment is the index i of a sequence succeeds for
\* 0 <= i <= length; at i = length the sequence has grown by exactly one
\* element and element i is v, at i < length element i is v and the length
\* is unchanged; every other element, and the rest of the data, is as
\* before.
C4_SetAtIndex ==
    (/\ Called({"Set"})
     /\ IsIndexPath(last.field)
     /\ AtoiOk(IndexSeg(last.field))
     /\ Atoi(IndexSeg(last.field)) \in 0 .. Len(Target(last.before, last.field)))
    => LET old == Target(last.before, last.field)
           i == Atoi(IndexSeg(last.field))
           new == IF i = Len(old) THEN Append(old, last.arg[1])
                  ELSE [old EXCEPT ![i + 1] = last.arg[1]]
       IN  /\ last.out = "ok"
           /\ data = WithTarget(last.before, last.field, new)

\* C4 witness: a Set at index = length of a non-empty sequence held in the
\* map has appended a value that differs from its neighbour
C4_Witness ==
    /\ Called({"Set"})
    /\ last.field = <<"Extra", "Items", "1">>
    /\ Target(last.before, last.field) = <<StrV("a")>>
    /\ Target(data, last.field) = <<StrV("a"), StrV("b")>>

\* C5: a Get or Set through a sequence index greater than the length
\* returns an error and leaves the data unchanged.
C5_IndexBeyondLength ==
    (/\ Called({"Get", "Set"})
     /\ ThroughIndexPath(last.field)
     /\ AtoiOk(IndexSeg(last.field))
     /\ Atoi(IndexSeg(last.field)) > Len(Target(last.before, last.field)))
    => last.out = "err" /\ data = last.before

\* C6: a Remove of the index i < length of a sequence leaves the sequence
\* without its former element i, the others in their order; a Remove of a
\* key of the map leaves the map without that key and its other entries
\* unchanged.  Nothing else changes.
C6_Remove ==
    /\ (/\ Called({"Remove"})
        /\ IsIndexPath(last.field)
        /\ AtoiOk(IndexSeg(last.field))
        /\ Atoi(IndexSeg(last.field)) \in
             0 .. (Len(Target(last.before, last.field)) - 1))
       => LET old == Target(last.before, last.field)
              i == Atoi(IndexSeg(last.field))
          IN  /\ last.out = "ok"
              /\ Len(Target(data, last.field)) = Len(old) - 1
              /\ \A j \in 1 .. (Len(old) - 1) :
                    Target(data, last.field)[j] =
                        IF j <= i THEN old[j] ELSE old[j + 1]
              /\ data = WithTarget(last.before, last.field,
                                   Target(data, last.field))
    /\ (/\ Called({"Remove"})
        /\ Len(last.field) = 2
        /\ last.field[1] = "Extra")
       => LET old == last.before.f.Extra.m
              new == data.f.Extra.m
          IN  /\ last.out = "ok"
              /\ DOMAIN new = DOMAIN old \ {last.field[2]}
              /\ \A k \in DOMAIN new : new[k] = old[k]
              /\ data = [last.before EXCEPT !.f.Extra.m = new]

\* C6 witness: the first of two different elements has been removed
C6_Witness ==
    /\ Called({"Remove"})
    /\ last.field = <<"Seq", "0">>
    /\ Target(last.before, last.field) = <<StrV("a"), StrV("b")>>
    /\ Target(data, last.field) = <<StrV("b")>>

\* the segment of a call that the resolver cannot follow: an unknown field
\* of the struct, a segment for a sequence that is no non-negative
\* integer, or a segment below a string
BadSegment(root, field) ==
    \/ field[1] \notin DOMAIN root.f
    \/ /\ ThroughIndexPath(field)
       /\ ~(AtoiOk(IndexSeg(field)) /\ Atoi(IndexSeg(field)) >= 0)
    \/ /\ ThroughIndexPath(field)
       /\ AtoiOk(IndexSeg(field))
       /\ Atoi(IndexSeg(field)) \in 0 .. Len(Target(root, field))
       /\ ~IsIndexPath(field)
    \/ field[1] = "Name" /\ Len(field) > 1
    \/ Len(field) = 3 /\ field[1] = "Extra" /\ field[2] = "Note"
       /\ "Note" \in DOMAIN root.f.Extra.m

\* C7: resolving a path with such a segment returns an error and leaves the
\* data unchanged.
C7_AddressError ==
    (Called({"Get", "Set", "Remove"}) /\ BadSegment(last.before, last.field))
    => last.out = "err" /\ data = last.before

---------------------------------------------------------------------------
(* Properties of the form model.                                           *)

\* the id of some registered widget names nothing in the data
SomeIdUnresolved(ws, root) ==
    \E i \in DOMAIN ws : getNestedField(root, ws[i].Id).out = "err"

\* C1: a Fill that returns has called the Fill of every registered widget
\* exactly once, in registration order, also after a widget returned false,
\* and returns false exactly if one of these calls returned false; a Fill
\* that does not return has called a prefix of the widgets, in that order.
C1_FillCallsEveryWidget ==
    Called({"Fill"}) =>
        /\ \A j \in DOMAIN last.calls : last.calls[j].widget = j
        /\ Len(last.calls) <= Len(Widgets)
        /\ last.out = "ok" =>
              /\ Len(last.calls) = Len(Widgets)
              /\ last.ret = (\A j \in DOMAIN last.calls : last.calls[j].ok)

\* C1 witness: the first of two widgets returned false, the second was
\* still called and returned true, and the form's Fill returned false
C1_Witness ==
    /\ Called({"Fill"})
    /\ last.out = "ok"
    /\ Len(last.calls) = 2
    /\ ~last.calls[1].ok
    /\ last.calls[2].ok
    /\ ~last.ret

\* C2: a Fill of a form with a registered widget whose id cannot be
\* resolved in the data does not return: it panics.
C2_FillAbortsOnUnresolvedId ==
    (Called({"Fill"}) /\ SomeIdUnresolved(Widgets, last.before))
    => last.out = "panic"

\* C3: a RenderData of a form with a registered widget whose id cannot be
\* resolved in the data panics and returns no render tree, whatever the
\* variant of that widget.
C3_RenderAbortsOnUnresolvedId ==
    (Called({"RenderData"}) /\ SomeIdUnresolved(Widgets, last.before))
    => last.out = "panic" /\ last.tree = <<>>

---------------------------------------------------------------------------
(* Properties of the list models.                                          *)

\* the strings of the sequence the list widget is bound to
Bound(root) ==
    LET s == getNestedField(root, Widgets[1].Id).val[1].s
    IN  [i \in DOMAIN s |-> s[i].v]

ListId == Widgets[1].Id

\* the submission consists of the keys ks
Submitted(ks) == DOMAIN last.values = ks

Child(i) == Append(ListId, Itoa(i))

\* C8 as claimed: over an empty sequence, a Fill with the add control for
\* the list and child 0 = x leaves the sequence <<x>>.
C8_AddWithFirstChild ==
    (/\ Called({"Fill"})
     /\ Bound(last.before) = <<>>
     /\ Submitted({AddKey, Child(0)})
     /\ last.values[AddKey] = <<Join(ListId)>>)
    => Bound(data) = last.values[Child(0)]

\* C8 amended: that Fill returns false and leaves the sequence <<x, "">>:
\* the submitted child and the row the add control asks for.
C8_AddAppendsEmptyRow ==
    (/\ Called({"Fill"})
     /\ Bound(last.before) = <<>>
     /\ Submitted({AddKey, Child(0)})
     /\ last.values[AddKey] = <<Join(ListId)>>)
    => /\ last.out = "ok"
       /\ ~last.ret
       /\ Bound(data) = last.values[Child(0)] \o <<"">>

\* C8 witness: such a Fill has happened for the list kept in the map
C8_Witness ==
    /\ Called({"Fill"})
    /\ ListId = <<"Extra", "Items">>
    /\ Bound(last.before) = <<>>
    /\ Submitted({AddKey, Child(0)})
    /\ last.values[AddKey] = <<"Extra.Items">>
    /\ Bound(data) = <<"x", "">>

\* C9: over a sequence of n >= 1 elements, a Fill that submits the children
\* 0 .. n-1 and the remove control for child k < n returns false and leaves
\* the submitted values without that of child k, in their order.
C9_RemoveControl ==
    \A k \in 0 .. (WideLen - 1) :
        (/\ Called({"Fill"})
         /\ Len(Bound(last.before)) >= 1
         /\ k < Len(Bound(last.before))
         /\ Submitted({RemoveKey}
                      \cup {Child(i) : i \in 0 .. (Len(Bound(last.before)) - 1)})
         /\ last.values[RemoveKey] = <<Join(Child(k))>>)
        => /\ last.out = "ok"
           /\ ~last.ret
           /\ Bound(data) =
                [j \in 1 .. (Len(Bound(last.before)) - 1) |->
                    last.values[Child(IF j <= k THEN j - 1 ELSE j)][1]]

\* C10: after a Fill of the list that returns, the sequence has no element
\* at an index above maxIndex, the greatest submitted child index plus one
\* for an add.
C10_CroppedToMaxIndex ==
    (Called({"Fill"}) /\ last.out = "ok")
    => Len(Bound(data)) <=
         1 + MaxIndex(Widgets[1], last.values,
                      ValuesGet(last.values, AddKey) = Join(ListId))

\* the list's maxIndex for the submission of the state
MaxIndexOf(values) ==
    MaxIndex(Widgets[1], values, ValuesGet(values, AddKey) = Join(ListId))

\* the children of 0 .. maxIndex that the Fill has not marked for removal:
\* not the target of the remove control, and submitted or the slot that the
\* add control asks for
Unmarked(values) ==
    {i \in 0 .. MaxIndexOf(values) :
        /\ ValuesGet(values, RemoveKey) /= Join(Child(i))
        /\ \/ Child(i) \in DOMAIN values
           \/ /\ ValuesGet(values, AddKey) = Join(ListId)
              /\ i = MaxIndexOf(values)}

\* the elements of the set S of numbers, ascending
RECURSIVE Ascending(_)
Ascending(S) ==
    IF S = {} THEN <<>>
    ELSE LET m == CHOOSE i \in S : \A j \in S : i <= j
         IN  <<m>> \o Ascending(S \ {m})

\* C11: after a Fill of the list that returns, the sequence consists of the
\* submitted values of the unmarked children of 0 .. maxIndex, in ascending
\* index order, however many children were marked.
C11_UnmarkedChildrenKept ==
    (Called({"Fill"}) /\ last.out = "ok")
    => Bound(data) =
         [j \in DOMAIN Ascending(Unmarked(last.values)) |->
             ValuesGet(last.values,
                       Child(Ascending(Unmarked(last.values))[j]))]

\* C12: a Fill that submits exactly the children 0 .. n-1 of the list, of
\* whatever decimal width their indices are, returns and leaves the sequence
\* of the n submitted values: no child is dropped.
C12_AnyWidthIndices ==
    (/\ Called({"Fill"})
     /\ Submitted({Child(i) : i \in 0 .. (Len(Bound(last.before)) - 1)}))
    => /\ last.out = "ok"
       /\ Bound(data) = [j \in 1 .. Len(Bound(last.before)) |->
                            last.values[Child(j - 1)][1]]

\* C13: a RenderData of the list returns one child node per element of the
\* bound sequence, in index order: node i has the id <Id>.<i> and the value
\* of element i as its Data; the list's node carries them as Fields, with
\* the widget's AddLabel and RemoveLabel.
C13_OneNodePerElement ==
    Called({"RenderData"}) =>
        /\ last.out = "ok"
        /\ Len(last.tree) = 1
        /\ last.tree[1].Id = ListId
        /\ last.tree[1].Data.AddLabel = Widgets[1].AddLabel
        /\ last.tree[1].Data.RemoveLabel = Widgets[1].RemoveLabel
        /\ Len(last.tree[1].Data.Fields) = Len(Bound(last.before))
        /\ \A i \in DOMAIN last.tree[1].Data.Fields :
              /\ last.tree[1].Data.Fields[i].Id = Child(i - 1)
              /\ last.tree[1].Data.Fields[i].Data = StrV(Bound(last.before)[i])

\* C13 witness: the list has been rendered over two different elements that
\* a Fill had bound
C13_Witness ==
    /\ Called({"RenderData"})
    /\ Bound(last.before) = <<"x", "y">>
    /\ Len(last.tree[1].Data.Fields) = 2
    /\ last.tree[1].Data.Fields[2].Id = <<"Extra", "Items", "1">>
    /\ last.tree[1].Data.Fields[2].Data = StrV("y")

\* the submission consists of the children 0 .. n-1 of the list, n >= 1
ChildrenOnly(values) ==
    /\ values /= <<>>
    /\ DOMAIN values = {Child(i) : i \in 0 .. (Cardinality(DOMAIN values) - 1)}

\* C19: when a Fill of the list has bound the submitted children 0 .. n-1,
\* the node <Id>.<i> of the RenderData that follows has the inner widget's
\* ValidationError among its Errors for every child i whose value the inner
\* widget found too short.
C19_ChildErrorsRendered ==
    [][(/\ Called({"Fill"})
        /\ last.out = "ok"
        /\ ChildrenOnly(last.values)
        /\ Called({"RenderData"})') =>
          /\ last'.out = "ok"
          /\ \A i \in 0 .. (Cardinality(DOMAIN last.values) - 1) :
                Len(last.values[Child(i)][1]) < Widgets[1].Inner[1].MinLength
                => /\ i + 1 \in DOMAIN last'.tree[1].Data.Fields
                   /\ \E e \in DOMAIN last'.tree[1].Data.Fields[i + 1].Errors :
                         last'.tree[1].Data.Fields[i + 1].Errors[e] =
                            Widgets[1].Inner[1].ValidationError]_vars

---------------------------------------------------------------------------
(* Properties of the widget model.                                         *)

\* the widget of the widget model, and the value its key was submitted with
TheWidget == Widgets[1]
Given == ValuesGet(last.values, TheWidget.Id)
KeySubmitted == TheWidget.Id \in DOMAIN last.values

\* a Fill of the widget of the given variant has returned
Filled(kind) == Called({"Fill"}) /\ TheWidget.kind = kind

\* the whole value is what the pattern describes
WholeMatch(pattern, value) ==
    CASE pattern = "a" -> value = "a"
      [] pattern = "^a$" -> value = "a"
      [] OTHER -> FALSE

\* the pattern describes some part of the value
FoundIn(pattern, value) ==
    CASE pattern = "a" -> value \in {"a", "ab", "ba"}
      [] pattern = "^a$" -> value = "a"
      [] OTHER -> FALSE

\* C14 as claimed: a Fill of a Text widget returns true exactly if the value
\* has at least MinLength characters and, with a pattern, the whole value
\* matches it; a Fill that returns false has appended ValidationError.
C14_WholeValueMatches ==
    Filled("Text") =>
        /\ last.out = "ok"
        /\ last.ret = (/\ Len(Given) >= TheWidget.MinLength
                       /\ (TheWidget.Regexp /= "" =>
                             WholeMatch(TheWidget.Regexp, Given)))
        /\ ~last.ret =>
              /\ TheWidget.Errors /= <<>>
              /\ TheWidget.Errors[Len(TheWidget.Errors)] =
                    TheWidget.ValidationError

\* C14 amended: the pattern need only match some part of the value: a
\* pattern demands the whole value only if it is anchored with ^ and $.
C14_PatternFound ==
    Filled("Text") =>
        /\ last.out = "ok"
        /\ last.ret = (/\ Len(Given) >= TheWidget.MinLength
                       /\ (TheWidget.Regexp /= "" =>
                             FoundIn(TheWidget.Regexp, Given)))
        /\ ~last.ret =>
              /\ TheWidget.Errors /= <<>>
              /\ TheWidget.Errors[Len(TheWidget.Errors)] =
                    TheWidget.ValidationError

\* C14 witness: the value "ba" has passed the unanchored pattern "a", after
\* a Fill of the same widget had failed
C14_Witness ==
    /\ Filled("Text")
    /\ TheWidget.Regexp = "a"
    /\ TheWidget.MinLength = 2
    /\ Given = "ba"
    /\ last.ret
    /\ last.was[1].Errors = <<"Invalid!">>

\* C15: a Fill of a Text widget returns and leaves in the bound field the
\* value submitted for the widget's id, "" without the key, whether the
\* Fill returns true or false; the RenderData that follows it returns that
\* value as the Data of the widget's node.
C15_TextBindsSubmitted ==
    [][/\ Filled("Text")' =>
             /\ last'.out = "ok"
             /\ data'.f.Name = StrV(Given')
       /\ (Filled("Text") /\ Called({"RenderData"})') =>
             /\ last'.out = "ok"
             /\ last'.tree[1].Data = StrV(Given)]_vars

\* C15 witness: the value "b", which the last Fill found invalid, is the
\* Data of the render tree
C15_Witness ==
    /\ Called({"RenderData"})
    /\ TheWidget.kind = "Text"
    /\ TheWidget.Errors = <<"Invalid!">>
    /\ last.tree[1].Data = StrV("b")
    /\ last.tree[1].Errors = <<"Invalid!">>

\* C16: a Fill of a Bool widget returns true and leaves in the bound field
\* the parsed boolean for a token that parses and false both without the
\* key and for a token that does not parse, whatever the field held.
C16_BoolWritesFalse ==
    Filled("Bool") =>
        /\ last.out = "ok"
        /\ last.ret
        /\ data.f.Alive = BoolV(KeySubmitted /\ Given \in {"true", "1"})

\* C17: a Fill of an Integer widget returns; with a token that parses it
\* returns true and leaves the parsed integer in the bound field, and with
\* a token that does not parse, or without the key, it returns false and
\* leaves the data as it was.
C17_IntegerUnparsable ==
    Filled("Integer") =>
        /\ last.out = "ok"
        /\ IF KeySubmitted /\ Given \in {"7", "-3"}
           THEN /\ last.ret
                /\ data.f.Age = IntV(IF Given = "7" THEN 7 ELSE 0 - 3)
           ELSE /\ ~last.ret
                /\ data = last.before

\* the variants whose Fill validates what it binds
Validating == {"Text", "TextArea", "Integer"}

\* C18: when the Fill of a Text, TextArea or Integer widget has returned
\* false, the widget's Errors are not empty, and the widget's node of the
\* RenderData that follows has these messages as its Errors.
C18_FailureLeavesMessage ==
    [][/\ (Called({"Fill"}) /\ TheWidget.kind \in Validating
             /\ last.out = "ok" /\ ~last.ret)' =>
             TheWidget.Errors' /= <<>>
       /\ (Called({"Fill"}) /\ TheWidget.kind \in Validating
             /\ last.out = "ok" /\ ~last.ret /\ Called({"RenderData"})') =>
             /\ last'.out = "ok"
             /\ last'.tree[1].Errors /= <<>>
             /\ last'.tree[1].Errors = TheWidget.Errors]_vars

\* the submitted value is the value of one of the widget's options
OptionGiven ==
    /\ KeySubmitted
    /\ \E i \in DOMAIN TheWidget.Options : TheWidget.Options[i].Value = Given

\* the options with exactly the one of the value v selected
Choosing(options, v) ==
    [i \in DOMAIN options |->
        [options[i] EXCEPT !.Selected = (options[i].Value = v)]]

\* C20: a Fill of a Select widget with the value of one of its options
\* returns true, leaves that value in the bound field and leaves that
\* option selected and every other option not selected; the RenderData
\* that follows returns the options with exactly these flags as Data.
C20_SelectMatching ==
    [][/\ (Filled("Select") /\ OptionGiven)' =>
             /\ last'.out = "ok"
             /\ last'.ret
             /\ data'.f.Name = StrV(Given')
             /\ TheWidget.Options' = Choosing(last'.was[1].Options, Given')
       /\ (Filled("Select") /\ OptionGiven /\ Called({"RenderData"})') =>
             /\ last'.out = "ok"
             /\ last'.tree[1].Data = Choosing(TheWidget.Options, Given)]_vars

\* C20 witness: the third option has been chosen while the second was
\* selected
C20_Witness ==
    /\ Filled("Select")
    /\ Given = "c"
    /\ last.was[1].Options[2].Selected
    /\ TheWidget.Options[3].Selected
    /\ ~TheWidget.Options[2].Selected
    /\ data.f.Name = StrV("c")

\* C21: a Fill of a Select widget with a value that no option has, or
\* without the key, returns true, leaves the first option's value in the
\* bound field and leaves the first option selected and every other option
\* not selected, whatever was selected before.
C21_SelectFallsBackToFirst ==
    (Filled("Select") /\ ~OptionGiven) =>
        /\ last.out = "ok"
        /\ last.ret
        /\ data.f.Name = StrV(TheWidget.Options[1].Value)
        /\ \A i \in DOMAIN TheWidget.Options :
              TheWidget.Options[i].Selected = (i = 1)

\* the offset from UTC, in minutes, of the zone a Time widget reads its
\* input in: UTC unless the widget was given a Location
ZoneOffset(w) == IF w.Location = <<>> THEN 0 ELSE w.Location[1]

\* C22: a Fill of a Time widget returns true and leaves in the bound field
\* the instant its input names on the wall clock of the widget's zone, UTC
\* without a Location: to the minute with second zero for the short format,
\* with the second, and the fraction, for the formats that have them; it
\* leaves the zero time for an input of no format and without the key.
C22_TimeFirstFormat ==
    Filled("Time") =>
        /\ last.out = "ok"
        /\ last.ret
        /\ data.f.When =
             TimeV(CASE Given = "1985-04-10T08:10" ->
                          Instant(490 - ZoneOffset(last.was[1]), 0, 0)
                     [] Given = "1985-04-10T08:10:30" ->
                          Instant(490 - ZoneOffset(last.was[1]), 30, 0)
                     [] Given = "1985-04-10T08:10:30.5" ->
                          Instant(490 - ZoneOffset(last.was[1]), 30, 500000000)
                     [] OTHER -> Instant(ZeroMinute, 0, 0))

\* C22 witness: a widget without a Location has bound the short input as
\* 08:10:00 UTC, where the field held 08:10:30 or the zero time
C22_Witness ==
    /\ Filled("Time")
    /\ last.was[1].Location = <<>>
    /\ Given = "1985-04-10T08:10"
    /\ last.before.f.When /= data.f.When
    /\ data.f.When = TimeV(Instant(490, 0, 0))

---------------------------------------------------------------------------
(* Properties of the form model: rendering.                                *)

\* C23: a RenderData that returns has set EncTypeAttr exactly if one of the
\* registered widgets is a File widget, wherever it stands among them.
C23_EncTypeIffFileWidget ==
    (Called({"RenderData"}) /\ last.out = "ok") =>
        last.enc = (\E i \in DOMAIN Widgets : Widgets[i].kind = "File")

\* C23 witness: the flag is set for a form whose File widget is followed by
\* a widget of another variant
C23_Witness ==
    /\ Called({"RenderData"})
    /\ last.out = "ok"
    /\ Len(Widgets) = 2
    /\ Widgets[1].kind = "File"
    /\ Widgets[2].kind = "Text"
    /\ last.enc

---------------------------------------------------------------------------
(* Properties of the session model.                                        *)

\* C24: an AddError(id, msg) puts msg behind the messages added for id
\* before and changes neither the messages of another id nor the data nor
\* a widget; a RenderData that returns has, in the node of every widget,
\* the widget's own Errors followed by the messages added for the widget's
\* id, in the order they were added, and has the messages added for the
\* empty id as the Errors of the form, and in no node.
C24_AddedErrorsRendered ==
    [][/\ Called({"AddError"})' =>
             /\ ErrorsOf(errors', last'.id) =
                   Append(ErrorsOf(errors, last'.id), last'.msg)
             /\ \A id \in ErrorIds \ {last'.id} :
                   ErrorsOf(errors', id) = ErrorsOf(errors, id)
             /\ data' = data
             /\ Widgets' = Widgets
       /\ (Called({"RenderData"}) /\ last.out = "ok")' =>
             /\ \A i \in DOMAIN Widgets :
                   last'.tree[i].Errors =
                      Widgets[i].Errors \o ErrorsOf(errors, Widgets[i].Id)
             /\ last'.formErrors = ErrorsOf(errors, <<"">>)]_vars

\* C24 witness: the widget's node has the message added for its id behind
\* the widget's own, and another message is the form's
C24_Witness ==
    /\ Called({"RenderData"})
    /\ Widgets[1].Id = <<"Name">>
    /\ last.tree[1].Errors = <<"Invalid!", "e2">>
    /\ last.formErrors = <<"e1">>

---------------------------------------------------------------------------
(* Properties of the list model: the result of Fill.                       *)

\* the value of every child of 0 .. maxIndex that is not the target of the
\* remove control has the length the inner widget asks for
ChildrenValidate(values) ==
    \A i \in 0 .. MaxIndexOf(values) :
        ValuesGet(values, RemoveKey) /= Join(Child(i))
        => Len(ValuesGet(values, Child(i))) >= Widgets[1].Inner[1].MinLength

\* the add control names the list and a child of 0 .. maxIndex, not the
\* target of the remove control, is not submitted
AddTakesEffect(values) ==
    /\ ValuesGet(values, AddKey) = Join(ListId)
    /\ \E i \in 0 .. MaxIndexOf(values) :
          /\ ValuesGet(values, RemoveKey) /= Join(Child(i))
          /\ Child(i) \notin DOMAIN values

\* the remove control names a child of 0 .. maxIndex of the list
RemoveTakesEffect(values) ==
    \E i \in 0 .. MaxIndexOf(values) :
        ValuesGet(values, RemoveKey) = Join(Child(i))

---------------------------------------------------------------------------
(* Properties of the path model: Get after Set, and what Get leaves.       *)

\* C26: the Get of a path whose Set with the value v has returned, returns
\* v: for a field of the struct, a key of the map, present before or not,
\* an index of a sequence, the interface field and the pointer field.
C26_GetAfterSet ==
    Called({"GetBack"}) =>
        /\ last.out = "ok"
        /\ last.val = last.arg

\* C27: a Get, of a path that resolves or not, leaves the data as it was:
\* every sequence keeps its length and its elements, also when the path
\* has an index that equals the length of its sequence.
C27_GetLeavesData ==
    Called({"Get"}) => data = last.before

---------------------------------------------------------------------------
(* Properties of the session model: what RenderData leaves.                *)

\* C28: a RenderData that returns has left the data and the Errors of
\* every registered widget as they were, and, when the call before it was a
\* RenderData too, returns the tree that one returned.
C28_RenderLeavesState ==
    (Called({"RenderData"}) /\ last.out = "ok") =>
        /\ data = last.before
        /\ \A i \in DOMAIN Widgets : Widgets[i].Errors = last.ws[i].Errors
        /\ last.prev /= <<>> => last.tree = last.prev[1]

---------------------------------------------------------------------------
(* Properties of the list model: a Fill repeated.                          *)

\* C29: a Fill with the submission of the Fill before it, which has no
\* control key, returns what that Fill returned and leaves the data as that
\* Fill left it, whatever the data was before the two.
C29_FillTwiceAsOnce ==
    Called({"FillAgain"}) =>
        /\ last.out = "ok"
        /\ last.ret = last.first.ret
        /\ data = last.before

---------------------------------------------------------------------------
(* Properties of the widget model: the messages of a Text or TextArea      *)
(* widget over repeated fills.                                             *)

\* C30: after every Fill of a Text or TextArea widget, whatever fills came
\* before it, the widget's Errors is empty if the Fill returned true and
\* holds its ValidationError, once, if the Fill returned false.
C30_ErrorsOfLastFillOnly ==
    (Called({"Fill"}) /\ last.out = "ok"
       /\ TheWidget.kind \in {"Text", "TextArea"}) =>
        TheWidget.Errors = IF last.ret THEN <<>>
                           ELSE <<TheWidget.ValidationError>>

\* a Fill that fails on a widget that holds the message of a failed Fill
C30_Witness ==
    /\ Called({"Fill"})
    /\ last.out = "ok"
    /\ TheWidget.kind \in {"Text", "TextArea"}
    /\ ~last.ret
    /\ last.was[1].Errors = <<TheWidget.ValidationError>>
    /\ TheWidget.Errors = <<TheWidget.ValidationError>>

====
